---- MODULE Spec2Model ----
(***************************************************************************)
(* Model of src/app.js: two Express servers kept in one file.              *)
(*   - the OpenAI server (lines 1-92): one rate limiter, /generate,        *)
(*     /health;                                                            *)
(*   - the Stability server (lines 93-418): static /uploads, three stacked *)
(*     rate limiters (daily, hourly, burst), /test-stability, /generate,   *)
(*     /save-image, /health, /rate-limit-status.                           *)
(* A request walks the middleware stack in registration order, one         *)
(* middleware per step; requests interleave between steps, as they do at   *)
(* the awaits of the event loop.  Strings the code inspects are sequences  *)
(* of one-character strings, so that toLowerCase, includes, join and split *)
(* are computed and not assumed.                                           *)
(***************************************************************************)
EXTENDS Integers, Sequences, FiniteSets, Bags, TLC

VARIABLES
  variant,    \* which server of the file runs: "openai" or "stability"
  disabled,   \* process.env.DISABLE_RATE_LIMIT === 'true'
  now,        \* Date.now(), in milliseconds since the process started
  store,      \* store[limiter][ip]: the limiter's counter of that client
  inflight,   \* bag of the requests being handled
  nfiles,     \* number of files written to the uploads directory
  ticks,      \* number of free clock steps taken (environment)
  firstReject,\* per client, the limiter that was the first to reject it ("": none yet)
  prompt,     \* argument of the moderateContent call under study
  decision    \* its result

vars == <<variant, disabled, now, store, inflight, nfiles, ticks, firstReject, prompt, decision>>

(***************************************************************************)
(* Bounds of the exploration.                                              *)
(***************************************************************************)
MaxTime == 120000       \* Spec: clients wait for resets up to this time (2 min)
MaxDay == 90000000      \* SpecGovernor: the same, 25 hours
MaxTicks == 2           \* SpecBurst: clock steps
MaxConcurrent == 3      \* SpecBurst: requests handled at the same time
MaxOver == 1            \* requests a client sends into an exhausted window
MaxFiles == 1           \* files the uploads directory can hold
MaxPieces == 2          \* SpecModeration: pieces a prompt is made of

(***************************************************************************)
(* Strings.                                                                *)
(***************************************************************************)
UpperCase == <<"A", "B", "C", "D", "E", "F", "G", "H", "I", "J", "K", "L", "M", "N", "O", "P", "Q", "R", "S", "T", "U", "V", "W", "X", "Y", "Z">>

LowerCase == <<"a", "b", "c", "d", "e", "f", "g", "h", "i", "j", "k", "l", "m", "n", "o", "p", "q", "r", "s", "t", "u", "v", "w", "x", "y", "z">>

\* String.prototype.toLowerCase on one character
LowerChar(c) ==
  IF \E i \in 1..Len(UpperCase) : UpperCase[i] = c
  THEN LowerCase[CHOOSE i \in 1..Len(UpperCase) : UpperCase[i] = c]
  ELSE c

\* String.prototype.toLowerCase
toLowerCase(s) == [i \in 1..Len(s) |-> LowerChar(s[i])]

\* String.prototype.includes: some position of s starts a copy of w
includes(s, w) ==
  \E i \in 0..(Len(s) - Len(w)) : \A j \in 1..Len(w) : s[i + j] = w[j]

\* filter with the test negated
RECURSIVE filter_negated(_, _)
filter_negated(arr, s) ==
  IF arr = <<>> THEN <<>>
  ELSE IF ~includes(s, Head(arr))
       THEN <<Head(arr)>> \o filter_negated(Tail(arr), s)
       ELSE filter_negated(Tail(arr), s)

\* Array.prototype.filter, keeping the order of the array
RECURSIVE filter(_, _)
filter(arr, s) ==
  IF arr = <<>> THEN <<>>
  ELSE IF includes(s, Head(arr))
       THEN <<Head(arr)>> \o filter(Tail(arr), s)
       ELSE filter(Tail(arr), s)

\* Array.prototype.join(', ')
RECURSIVE join(_)
join(arr) ==
  IF arr = <<>> THEN <<>>
  ELSE IF Len(arr) = 1 THEN Head(arr)
  ELSE Head(arr) \o <<",", " ">> \o join(Tail(arr))

\* a JavaScript value of a request body: a string, or undefined (field absent)
Str(s) == [kind |-> "string", str |-> s]
Undefined == [kind |-> "undefined", str |-> <<>>]

(***************************************************************************)
(* moderateContent (both servers define the same function).                *)
(***************************************************************************)
blacklist ==
  << <<"c", "e", "l", "e", "b", "r", "i", "t", "y">>,
     <<"c", "e", "l", "e", "b", "r", "i", "t", "i", "e", "s">>,
     <<"f", "a", "m", "o", "u", "s">>,
     <<"s", "t", "a", "r">>,
     <<"t", "r", "a", "d", "e", "m", "a", "r", "k">>,
     <<"l", "o", "g", "o">>,
     <<"b", "r", "a", "n", "d">>,
     <<"d", "i", "s", "n", "e", "y">>,
     <<"m", "a", "r", "v", "e", "l">>,
     <<"p", "o", "k", "e", "m", "o", "n">>,
     <<"p", "o", "l", "i", "t", "i", "c", "a", "l">>,
     <<"p", "o", "l", "i", "t", "i", "c", "i", "a", "n">>,
     <<"p", "r", "e", "s", "i", "d", "e", "n", "t">> >>

ReasonPrefix == <<"P", "r", "o", "m", "p", "t", " ", "c", "o", "n", "t", "a", "i", "n", "s", " ", "r", "e", "s", "t", "r", "i", "c", "t", "e", "d", " ", "w", "o", "r", "d", "s", ":", " ">>

\* matches without the lower-casing
matches_caseSensitive(p) == filter(blacklist, p.str)

\* the words of the blacklist found in the lower-cased prompt
matches(p) == filter(blacklist, toLowerCase(p.str))

\* threw: prompt.toLowerCase() on a value that is no string is a TypeError
moderateContent(p) ==
  IF p.kind # "string"
  THEN [threw |-> TRUE, allowed |-> FALSE, reason |-> <<>>]
  ELSE IF Len(matches(p)) > 0
       THEN [threw |-> FALSE, allowed |-> FALSE,
             reason |-> ReasonPrefix \o join(matches(p))]
       ELSE [threw |-> FALSE, allowed |-> TRUE, reason |-> <<>>]

(***************************************************************************)
(* Configuration of the rate limiters.  rateLimit(options) is the          *)
(* express-rate-limit middleware: it keeps, per client address, a hit      *)
(* count and the time at which the count starts again.                     *)
(***************************************************************************)
\* RATE_LIMITS with the hourly and the burst limit exchanged
RATE_LIMITS_swapped == [daily |-> 500, hourly |-> 20, burst |-> 50]

RATE_LIMITS == [daily |-> 500, hourly |-> 50, burst |-> 20]

\* the OpenAI server's only limiter
limiter ==
  [windowMs |-> 24 * 60 * 60 * 1000, max |-> 25,
   error |-> "Too many requests, please try again later."]

dailyLimiter ==
  [windowMs |-> 24 * 60 * 60 * 1000, max |-> RATE_LIMITS.daily,
   error |-> "Daily limit exceeded"]

\* burstLimiter given the hourly limit
burstLimiter_hourlyMax ==
  [windowMs |-> 60 * 1000, max |-> RATE_LIMITS.hourly,
   error |-> "Too many requests"]

burstLimiter ==
  [windowMs |-> 60 * 1000, max |-> RATE_LIMITS.burst,
   error |-> "Too many requests"]

\* hourlyLimiter given the window of the burst limiter
hourlyLimiter_minute ==
  [windowMs |-> 60 * 1000, max |-> RATE_LIMITS.hourly,
   error |-> "Hourly limit exceeded"]

hourlyLimiter ==
  [windowMs |-> 60 * 60 * 1000, max |-> RATE_LIMITS.hourly,
   error |-> "Hourly limit exceeded"]

LimiterNames == {"limiter", "dailyLimiter", "hourlyLimiter", "burstLimiter"}

Options(name) ==
  CASE name = "limiter" -> limiter
    [] name = "dailyLimiter" -> dailyLimiter
    [] name = "hourlyLimiter" -> hourlyLimiter
    [] name = "burstLimiter" -> burstLimiter

(***************************************************************************)
(* The middleware stacks, in the order of the app.use calls.               *)
(***************************************************************************)
OpenAIStack == <<"limiter", "router">>

\* the hourly limiter registered before the daily one
StabilityStack_hourlyFirst(dis) ==
  <<"static">>
  \o (IF dis THEN <<>> ELSE <<"hourlyLimiter", "dailyLimiter", "burstLimiter">>)
  \o <<"log", "router">>

\* the limiters registered after the routes
StabilityStack_routesFirst(dis) ==
  <<"static", "log", "router">>
  \o (IF dis THEN <<>> ELSE <<"dailyLimiter", "hourlyLimiter", "burstLimiter">>)

StabilityStack(dis) ==
  <<"static">>
  \o (IF dis THEN <<>> ELSE <<"dailyLimiter", "hourlyLimiter", "burstLimiter">>)
  \o <<"log", "router">>

Stack == IF variant = "openai" THEN OpenAIStack ELSE StabilityStack(disabled)

\* the limiters a request meets
Limiters == {Stack[i] : i \in 1..Len(Stack)} \cap LimiterNames

(***************************************************************************)
(* Requests.                                                               *)
(***************************************************************************)
Clients == {"ip1"}

P_blue_cat == <<"a", " ", "b", "l", "u", "e", " ", "c", "a", "t">>

P_mickey == <<"a", " ", "p", "h", "o", "t", "o", " ", "o", "f", " ", "M", "i", "c", "k", "e", "y", " ", "M", "o", "u", "s", "e">>

P_disney == <<"D", "i", "s", "n", "e", "y", " ", "S", "T", "A", "R", " ", "l", "o", "g", "o">>

DataUri == <<"d", "a", "t", "a", ":", "i", "m", "a", "g", "e", "/", "p", "n", "g", ";", "b", "a", "s", "e", "6", "4", ",", "A", "A", "A", "A">>

RawB64 == <<"A", "A", "A", "A">>

\* bodies of POST /generate: {prompt}
GenerateBodies ==
  {Undefined, Str(<<>>), Str(P_blue_cat), Str(P_mickey), Str(P_disney)}

\* bodies of POST /save-image: {imageData}
SaveBodies == {Undefined, Str(<<>>), Str(DataUri), Str(RawB64)}

Paths ==
  IF variant = "openai" THEN {"/generate", "/health"}
  ELSE {"/uploads/file", "/test-stability", "/generate", "/save-image",
        "/health", "/rate-limit-status"}

Bodies(path) ==
  CASE path = "/generate" -> GenerateBodies
    [] path = "/save-image" -> SaveBodies
    [] OTHER -> {Undefined}

NewRequest(ip, path, body) ==
  [ip |-> ip, path |-> path, body |-> body,
   pos |-> 1,            \* place in the middleware stack
   phase |-> "mw",       \* mw | fetch | responded
   status |-> 0, error |-> "", reason |-> <<>>,
   seen |-> <<>>,        \* the limiters that counted it, and what each did
   handled |-> FALSE,    \* a route handler or the static server ran
   mod |-> "none",       \* what moderateContent did: allowed | denied | threw
   upcalls |-> 0]        \* calls to the upstream provider made for it

Requests == BagToSet(inflight)

Replace(r, q) == (inflight (-) SetToBag({r})) (+) SetToBag({q})

Respond(r, status, error, reason) ==
  [r EXCEPT !.phase = "responded", !.status = status, !.error = error,
            !.reason = reason]

AtMiddleware(r, name) ==
  r.phase = "mw" /\ r.pos <= Len(Stack) /\ Stack[r.pos] = name

(***************************************************************************)
(* The store of a limiter (express-rate-limit's MemoryStore).              *)
(***************************************************************************)
\* first: the time of the first hit of the period that is counted;
\* passed: how many hits of that period the limiter let through
NoClient == [totalHits |-> 0, resetTime |-> 0, first |-> 0, passed |-> 0]

Expired(c) == c.resetTime <= now

\* store.increment(key): a count whose time is up starts again at this hit
increment(c, windowMs) ==
  IF Expired(c)
  THEN [totalHits |-> 1, resetTime |-> now + windowMs, first |-> now, passed |-> 0]
  ELSE [c EXCEPT !.totalHits = c.totalHits + 1]

(***************************************************************************)
(* Middleware.                                                             *)
(***************************************************************************)
Next_(r) == [r EXCEPT !.pos = r.pos + 1]

\* a client opens a request while fewer than cap requests are being handled;
\* it sends no more than MaxOver requests into a window it has exhausted
Arrive(ip, path, body, cap) ==
  /\ BagCardinality(inflight) < cap
  /\ \A w \in Limiters :
        \/ Expired(store[w][ip])
        \/ store[w][ip].totalHits < Options(w).max + MaxOver
  /\ inflight' = inflight (+) SetToBag({NewRequest(ip, path, body)})
  /\ UNCHANGED <<variant, disabled, now, store, nfiles, ticks, firstReject, prompt, decision>>

\* express.static on /uploads: serves the file when there is one, else next()
Static(r) ==
  /\ AtMiddleware(r, "static")
  /\ inflight' =
       IF r.path = "/uploads/file" /\ nfiles > 0
       THEN Replace(r, [Respond(r, 200, "", <<>>) EXCEPT !.handled = TRUE])
       ELSE Replace(r, Next_(r))
  /\ UNCHANGED <<variant, disabled, now, store, nfiles, ticks, firstReject, prompt, decision>>

\* the window of client counter c is at its ceiling
Full(name, c) == ~Expired(c) /\ c.totalHits >= Options(name).max

\* what the limiter `name` does with a request of a client whose counter is c:
\* it counts the hit, then rejects when the count is over max
Decide(name, c) ==
  LET d == increment(c, Options(name).windowMs)
      pass == ~(d.totalHits > Options(name).max)
  IN  [name |-> name, pass |-> pass, full |-> Full(name, c),
       client |-> [d EXCEPT !.passed = IF pass THEN d.passed + 1 ELSE d.passed]]

\* the middleware rateLimit(options) returned
RateLimit(r, name) ==
  /\ AtMiddleware(r, name)
  /\ LET e == Decide(name, store[name][r.ip])
         q == [r EXCEPT !.seen = Append(r.seen, [x \in DOMAIN e \ {"client"} |-> e[x]])]
     IN  /\ store' = [store EXCEPT ![name][r.ip] = e.client]
         /\ inflight' = IF e.pass
                        THEN Replace(r, Next_(q))
                        ELSE Replace(r, Respond(q, 429, Options(name).error, <<>>))
         /\ firstReject' = IF e.pass \/ firstReject[r.ip] # "" THEN firstReject
                         ELSE [firstReject EXCEPT ![r.ip] = name]
  /\ UNCHANGED <<variant, disabled, now, nfiles, ticks, prompt, decision>>

\* the middleware that logs the remaining requests
Log(r) ==
  /\ AtMiddleware(r, "log")
  /\ inflight' = Replace(r, Next_(r))
  /\ UNCHANGED <<variant, disabled, now, store, nfiles, ticks, firstReject, prompt, decision>>

(***************************************************************************)
(* Route handlers.                                                         *)
(***************************************************************************)
AtRoute(r, path) == AtMiddleware(r, "router") /\ r.path = path

Handled(r) == [r EXCEPT !.handled = TRUE]

\* /generate without the return of the moderation branch: the handler goes
\* on to the upstream call
Generate_noReturn(r) ==
  /\ AtMiddleware(r, "router") /\ r.path = "/generate"
  /\ LET moderation == moderateContent(r.body)
     IN  inflight' =
           IF moderation.threw
           THEN Replace(r, Respond([r EXCEPT !.handled = TRUE, !.mod = "threw"],
                                   500, "Failed to generate image", <<>>))
           ELSE Replace(r, [r EXCEPT !.handled = TRUE, !.phase = "fetch",
                                     !.mod = IF moderation.allowed THEN "allowed" ELSE "denied",
                                     !.status = IF moderation.allowed THEN 0 ELSE 400,
                                     !.error = IF moderation.allowed THEN "" ELSE "Content not allowed",
                                     !.reason = moderation.reason,
                                     !.upcalls = r.upcalls + 1])
  /\ UNCHANGED <<variant, disabled, now, store, nfiles, ticks, firstReject, prompt, decision>>

\* app.post('/generate'), up to its await
Generate(r) ==
  /\ AtRoute(r, "/generate")
  /\ LET moderation == moderateContent(r.body)
     IN  inflight' =
           IF moderation.threw
           THEN Replace(r, Respond([Handled(r) EXCEPT !.mod = "threw"],
                                   500, "Failed to generate image", <<>>))
           ELSE IF ~moderation.allowed
           THEN Replace(r, Respond([Handled(r) EXCEPT !.mod = "denied"],
                                   400, "Content not allowed", moderation.reason))
           ELSE Replace(r, [Handled(r) EXCEPT !.mod = "allowed", !.phase = "fetch",
                                              !.upcalls = r.upcalls + 1])
  /\ UNCHANGED <<variant, disabled, now, store, nfiles, ticks, firstReject, prompt, decision>>

\* app.get('/test-stability'), up to its await
TestStability(r) ==
  /\ AtRoute(r, "/test-stability")
  /\ inflight' = Replace(r, [Handled(r) EXCEPT !.phase = "fetch",
                                               !.upcalls = r.upcalls + 1])
  /\ UNCHANGED <<variant, disabled, now, store, nfiles, ticks, firstReject, prompt, decision>>

UpstreamOutcomes == {"ok", "failed", "empty"}

\* the upstream provider answers: ok, failed (the call rejects or the
\* response is not ok), empty (a response without images)
UpstreamReply(r, outcome) ==
  /\ r.phase = "fetch"
  /\ inflight' =
       IF r.path = "/test-stability"
       THEN IF outcome = "failed"
            THEN Replace(r, Respond(r, 500, "API test failed", <<>>))
            ELSE Replace(r, Respond(r, 200, "", <<>>))
       ELSE IF outcome = "ok"
            THEN Replace(r, Respond(r, 200, "", <<>>))
            ELSE Replace(r, Respond(r, 500, "Failed to generate image", <<>>))
  /\ UNCHANGED <<variant, disabled, now, store, nfiles, ticks, firstReject, prompt, decision>>

\* app.post('/save-image'); written: fs.writeFileSync did not throw (it
\* throws when the directory is full)
SaveImage(r, written) ==
  /\ AtRoute(r, "/save-image")
  /\ IF r.body.kind = "undefined" \/ r.body.str = <<>>
     THEN /\ inflight' = Replace(r, Respond(Handled(r), 400, "No image data provided", <<>>))
          /\ UNCHANGED nfiles
     ELSE IF written /\ nfiles < MaxFiles
     THEN /\ inflight' = Replace(r, Respond(Handled(r), 200, "", <<>>))
          /\ nfiles' = nfiles + 1
     ELSE /\ inflight' = Replace(r, Respond(Handled(r), 500, "Failed to save image", <<>>))
          /\ UNCHANGED nfiles
  /\ UNCHANGED <<variant, disabled, now, store, ticks, firstReject, prompt, decision>>

\* app.get('/health') and app.get('/rate-limit-status')
Status(r) ==
  /\ \/ AtRoute(r, "/health")
     \/ AtRoute(r, "/rate-limit-status")
  /\ inflight' = Replace(r, Respond(Handled(r), 200, "", <<>>))
  /\ UNCHANGED <<variant, disabled, now, store, nfiles, ticks, firstReject, prompt, decision>>

\* no route matches: Express answers 404
NotFound(r) ==
  /\ AtRoute(r, "/uploads/file")
  /\ inflight' = Replace(r, Respond(r, 404, "", <<>>))
  /\ UNCHANGED <<variant, disabled, now, store, nfiles, ticks, firstReject, prompt, decision>>

\* the response has been sent
Finish(r) ==
  /\ r.phase = "responded"
  /\ inflight' = inflight (-) SetToBag({r})
  /\ UNCHANGED <<variant, disabled, now, store, nfiles, ticks, firstReject, prompt, decision>>

(***************************************************************************)
(* Time.                                                                   *)
(***************************************************************************)
TickStep == 45 * 1000

\* the clock advances while requests are handled
Tick ==
  /\ ticks < MaxTicks
  /\ now' = now + TickStep
  /\ ticks' = ticks + 1
  /\ UNCHANGED <<variant, disabled, store, inflight, nfiles, firstReject, prompt, decision>>

\* a client that has exhausted a window waits until the window's reset time
\* (the RateLimit-Reset header of the response)
WaitReset(ip, name, horizon) ==
  /\ name \in Limiters
  /\ ~Expired(store[name][ip])
  /\ store[name][ip].totalHits >= Options(name).max
  /\ store[name][ip].resetTime <= horizon
  /\ now' = store[name][ip].resetTime
  /\ UNCHANGED <<variant, disabled, store, inflight, nfiles, ticks, firstReject, prompt, decision>>

(***************************************************************************)
(* Spec: either server, with or without DISABLE_RATE_LIMIT, every route    *)
(* and body; a client waits for the response before its next request.      *)
(***************************************************************************)
NotCalled == [called |-> FALSE, result |-> moderateContent(Undefined)]

Idle ==
  /\ now = 0
  /\ store = [name \in LimiterNames |-> [ip \in Clients |-> NoClient]]
  /\ inflight = EmptyBag
  /\ nfiles = 0
  /\ ticks = 0
  /\ firstReject = [ip \in Clients |-> ""]

Init ==
  /\ variant \in {"openai", "stability"}
  /\ disabled \in BOOLEAN
  /\ Idle
  /\ prompt = Undefined
  /\ decision = NotCalled

Next ==
  \/ \E ip \in Clients, path \in Paths : \E body \in Bodies(path) :
       Arrive(ip, path, body, 1)
  \/ \E r \in Requests : Static(r)
  \/ \E r \in Requests, name \in LimiterNames : RateLimit(r, name)
  \/ \E r \in Requests : Log(r)
  \/ \E r \in Requests : Generate(r)
  \/ \E r \in Requests : TestStability(r)
  \/ \E r \in Requests, outcome \in UpstreamOutcomes : UpstreamReply(r, outcome)
  \/ \E r \in Requests, written \in BOOLEAN : SaveImage(r, written)
  \/ \E r \in Requests : Status(r)
  \/ \E r \in Requests : NotFound(r)
  \/ \E r \in Requests : Finish(r)
  \/ \E ip \in Clients, name \in LimiterNames : WaitReset(ip, name, MaxTime)

Spec == Init /\ [][Next]_vars

(***************************************************************************)
(* SpecGovernor: the Stability server with its limiters on, over a day:    *)
(* the limiters do not read the route, the requests are GET /health.       *)
(***************************************************************************)
InitGovernor ==
  /\ variant = "stability"
  /\ disabled = FALSE
  /\ Idle
  /\ prompt = Undefined
  /\ decision = NotCalled

NextGovernor ==
  \/ \E ip \in Clients : Arrive(ip, "/health", Undefined, 1)
  \/ \E r \in Requests : Static(r)
  \/ \E r \in Requests, name \in LimiterNames : RateLimit(r, name)
  \/ \E r \in Requests : Log(r)
  \/ \E r \in Requests : Status(r)
  \/ \E r \in Requests : Finish(r)
  \/ \E ip \in Clients, name \in LimiterNames : WaitReset(ip, name, MaxDay)

SpecGovernor == InitGovernor /\ [][NextGovernor]_vars

(***************************************************************************)
(* SpecBurst: the same server under requests that arrive while others are  *)
(* being handled, over the first minutes.                                  *)
(***************************************************************************)
NextBurst ==
  \/ \E ip \in Clients : Arrive(ip, "/health", Undefined, MaxConcurrent)
  \/ \E r \in Requests : Static(r)
  \/ \E r \in Requests, name \in LimiterNames : RateLimit(r, name)
  \/ \E r \in Requests : Log(r)
  \/ \E r \in Requests : Status(r)
  \/ \E r \in Requests : Finish(r)
  \/ Tick

SpecBurst == InitGovernor /\ [][NextBurst]_vars

(***************************************************************************)
(* SpecModeration: moderateContent called on a prompt.                     *)
(***************************************************************************)
Pieces ==
  {blacklist[i] : i \in 1..Len(blacklist)}
  \cup {<<"S", "T", "A", "R">>, <<"L", "o", "G", "o">>, <<" ">>,
        <<"f", "i", "s", "h">>, <<"c", "e", "l", "e", "b">>,
        <<"r", "i", "t", "y">>, <<"p", "o", "l", "i", "t", "i">>,
        <<"c", "a", "l">>}

RECURSIVE Texts(_)
Texts(n) ==
  IF n = 0 THEN {<<>>}
  ELSE Texts(n - 1) \cup {t \o w : t \in Texts(n - 1), w \in Pieces}

InitModeration ==
  /\ variant \in {"openai", "stability"}
  /\ disabled = FALSE
  /\ Idle
  /\ prompt \in {Undefined} \cup {Str(t) : t \in Texts(MaxPieces)}
  /\ decision = NotCalled

Moderate ==
  /\ ~decision.called
  /\ decision' = [called |-> TRUE, result |-> moderateContent(prompt)]
  /\ UNCHANGED <<variant, disabled, now, store, inflight, nfiles, ticks, firstReject, prompt>>

NextModeration == Moderate

SpecModeration == InitModeration /\ [][NextModeration]_vars

(***************************************************************************)
(* The claims.  The numbers, names and texts the claims state are written  *)
(* out here, apart from the definitions above that model the code.         *)
(***************************************************************************)
Min(a, b) == IF a <= b THEN a ELSE b

Last(q) == q[Len(q)]

TheWindows == {"dailyLimiter", "hourlyLimiter", "burstLimiter"}

ClaimCeiling == [dailyLimiter |-> 500, hourlyLimiter |-> 50, burstLimiter |-> 20]

ClaimPeriod ==
  [dailyLimiter |-> 86400000, hourlyLimiter |-> 3600000, burstLimiter |-> 60000]

ClaimOrder == <<"dailyLimiter", "hourlyLimiter", "burstLimiter">>

ClaimReason ==
  [dailyLimiter |-> "Daily limit exceeded",
   hourlyLimiter |-> "Hourly limit exceeded",
   burstLimiter |-> "Too many requests"]

Rejected(r) == r.status = 429

\* C1 (SpecGovernor).  In every period of each of the three windows (1 min /
\* 20, 1 h / 50, 24 h / 500) the requests a window lets through are the first
\* N it counts in that period, N its ceiling: the count of passed requests
\* is min(hits, N), never above N; a request is rejected only by a window
\* that was at its ceiling, and a client that no window has rejected yet had
\* every request it sent let through by every window.
C1_FirstNAdmitted ==
  /\ \A name \in TheWindows, ip \in Clients :
       LET c == store[name][ip]
       IN  /\ c.passed = Min(c.totalHits, ClaimCeiling[name])
           /\ c.totalHits > 0 => c.resetTime = c.first + ClaimPeriod[name]
           /\ firstReject[ip] = "" => c.passed = c.totalHits
  /\ \A r \in Requests :
       /\ Rejected(r) => Len(r.seen) > 0 /\ Last(r.seen).full /\ ~Last(r.seen).pass
       /\ \A i \in 1..Len(r.seen) : r.seen[i].pass = ~r.seen[i].full

\* C1 witness: the daily window is the first to reject the client: its 500
\* earlier requests of the day were all admitted and the 501st is rejected.
C1_DailyFirst ==
  \E ip \in Clients, r \in Requests :
    /\ firstReject[ip] = "dailyLimiter"
    /\ store["dailyLimiter"][ip].totalHits = 501
    /\ store["dailyLimiter"][ip].passed = 500
    /\ r.ip = ip /\ Rejected(r) /\ r.error = "Daily limit exceeded"

\* C2 (SpecBurst).  With requests of one client handled at the same time, in
\* any interleaving of their steps, the burst window lets through exactly
\* min(hits, 20) of the requests it counts in one minute: 20 once more than
\* 20 came, every other one is rejected with the burst limiter's answer.
C2_ExactlyCeilingUnderConcurrency ==
  /\ \A ip \in Clients :
       LET c == store["burstLimiter"][ip]
       IN  /\ c.passed = Min(c.totalHits, 20)
           /\ c.totalHits > 0 => c.resetTime = c.first + 60000
  /\ \A r \in Requests :
       /\ Len(r.seen) = 3 /\ Last(r.seen).full
            => Rejected(r) /\ r.error = "Too many requests" /\ ~r.handled
       /\ r.handled => Len(r.seen) = 3 /\ ~Last(r.seen).full

\* C2 witness: 22 requests counted in one minute, 20 let through, and the two
\* rejected ones being answered at the same time.
C2_TwoRejectedTogether ==
  \E ip \in Clients, r \in Requests :
    /\ store["burstLimiter"][ip].totalHits = 22
    /\ store["burstLimiter"][ip].passed = 20
    /\ r.ip = ip /\ Rejected(r) /\ r.error = "Too many requests"
    /\ CopiesIn(r, inflight) = 2

\* C3 (SpecGovernor).  Whenever a window counts a request of a client: if the
\* window's duration has elapsed since the first request of the period it
\* was counting (or it counted none yet), the count starts again at this
\* request, which is the first of a period that begins at its time; if not,
\* the request is one more of the same period.
C3_ResetAfterWindow ==
  [][\A name \in TheWindows, ip \in Clients :
       LET c == store[name][ip]
           d == store'[name][ip]
       IN  d # c =>
             IF c.totalHits = 0 \/ now >= c.first + ClaimPeriod[name]
             THEN d.totalHits = 1 /\ d.first = now /\ d.passed = 1
                  /\ d.resetTime = now + ClaimPeriod[name]
             ELSE d.totalHits = c.totalHits + 1 /\ d.first = c.first
                  /\ d.resetTime = c.resetTime]_vars

\* C3 witness: the three windows are in later periods than the client's
\* first ones (the daily one started again after 24 hours), and in its new
\* period the hourly window has again let 50 requests through.
C3_LaterPeriods ==
  \E ip \in Clients :
    /\ store["dailyLimiter"][ip].first >= 86400000
    /\ store["hourlyLimiter"][ip].first >= store["dailyLimiter"][ip].first
    /\ store["burstLimiter"][ip].first > store["hourlyLimiter"][ip].first
    /\ store["hourlyLimiter"][ip].passed = 50

\* C10 (SpecGovernor).  A request is counted by the windows once each, in
\* the order daily, hourly, burst; a rejected request carries the answer of
\* the first window in that order that was at its ceiling and is counted by
\* no window after it; an admitted request has been counted by all three;
\* and a step moves one counter of one client, by one or to a new period.
C10_FixedOrder ==
  /\ [](\A r \in Requests :
          /\ Len(r.seen) <= 3
          /\ \A i \in 1..Len(r.seen) : r.seen[i].name = ClaimOrder[i]
          /\ Rejected(r) =>
               /\ Len(r.seen) >= 1
               /\ r.error = ClaimReason[ClaimOrder[Len(r.seen)]]
               /\ Last(r.seen).full
               /\ \A i \in 1..(Len(r.seen) - 1) : ~r.seen[i].full
          /\ r.handled => Len(r.seen) = 3 /\ \A i \in 1..3 : r.seen[i].pass)
  /\ [][\A name \in TheWindows, ip \in Clients :
          store'[name][ip] # store[name][ip] =>
            /\ \/ store'[name][ip].totalHits = store[name][ip].totalHits + 1
               \/ store'[name][ip].totalHits = 1
            /\ \A other \in TheWindows, jp \in Clients :
                 <<other, jp>> # <<name, ip>> => store'[other][jp] = store[other][jp]]_vars

\* C10 witness: a request rejected with the daily answer while the hourly
\* window of its client is at its ceiling too.
C10_DailyBeforeHourly ==
  \E r \in Requests :
    /\ Rejected(r) /\ r.error = "Daily limit exceeded" /\ Len(r.seen) = 1
    /\ store["hourlyLimiter"][r.ip].totalHits >= 50
    /\ store["hourlyLimiter"][r.ip].resetTime > now

\* rate limiting is on for the server that runs
Governed == variant = "stability" /\ ~disabled

\* C8 (Spec).  A request a window rejected has reached no route handler: no
\* handler ran for it, moderateContent was not called, the upstream provider
\* was not called; and with rate limiting on, a request for which a route
\* handler ran or an upstream call was made had passed the three windows.
C8_RejectedNeverHandled ==
  \A r \in Requests :
    /\ Rejected(r) => ~r.handled /\ r.upcalls = 0 /\ r.mod = "none"
    /\ /\ Governed
       /\ r.path # "/uploads/file"
       /\ r.handled \/ r.upcalls > 0 \/ r.mod # "none"
       => Len(r.seen) = 3 /\ \A i \in 1..3 : r.seen[i].pass

\* C8 witness: a POST /generate of an acceptable prompt rejected by the
\* hourly window.
C8_GenerateRejected ==
  \E r \in Requests :
    /\ Governed /\ r.path = "/generate" /\ r.body = Str(P_blue_cat)
    /\ Rejected(r) /\ r.error = "Hourly limit exceeded"

\* C9 (Spec), as the claim states it: with rate limiting on, whatever the
\* Stability server serves has been counted by the three windows.
C9_EveryRouteGoverned ==
  \A r \in Requests :
    Governed /\ (r.handled \/ r.status = 200) =>
      Len(r.seen) = 3 /\ \A i \in 1..3 : r.seen[i].pass

\* C5 (Spec), as the claim states it: a POST /generate without a prompt, or
\* with the empty prompt, makes moderateContent throw nothing, calls no
\* upstream provider and is answered 400, with another error than the
\* moderation's.
C5_MissingPromptInvalidInput ==
  \A r \in Requests :
    r.path = "/generate" /\ r.body \in {Undefined, Str(<<>>)} =>
      /\ r.mod # "threw"
      /\ r.upcalls = 0
      /\ r.handled /\ r.phase = "responded" =>
           r.status = 400 /\ r.error # "Content not allowed"

\* C6 (Spec).  A POST /generate whose prompt moderateContent does not allow
\* is answered, as soon as its handler runs, 400 'Content not allowed' with
\* the moderation's reason and no upstream call; an upstream call is made
\* only for a prompt moderateContent allows.
C6_DeniedNeverUpstream ==
  \A r \in Requests :
    r.path = "/generate" =>
      LET m == moderateContent(r.body)
      IN  /\ ~m.threw /\ ~m.allowed /\ r.handled =>
               /\ r.phase = "responded" /\ r.status = 400
               /\ r.error = "Content not allowed" /\ r.reason = m.reason
               /\ r.upcalls = 0
          /\ r.upcalls > 0 => ~m.threw /\ m.allowed /\ r.handled

\* C6 witness: 'Disney STAR logo' answered 400 with the reason
\* 'Prompt contains restricted words: star, logo, disney'.
C6_DisneyDenied ==
  \E r \in Requests :
    /\ r.path = "/generate" /\ r.body = Str(P_disney)
    /\ r.phase = "responded" /\ r.status = 400 /\ r.upcalls = 0
    /\ r.reason = <<"P", "r", "o", "m", "p", "t", " ", "c", "o", "n", "t", "a", "i", "n", "s", " ", "r", "e", "s", "t", "r", "i", "c", "t", "e", "d", " ", "w", "o", "r", "d", "s", ":", " ", "s", "t", "a", "r", ",", " ", "l", "o", "g", "o", ",", " ", "d", "i", "s", "n", "e", "y">>

\* C7 (Spec), as the claim states it: 'a photo of Mickey Mouse' is rejected
\* by the moderation and the upstream provider is never called for it.
C7_MickeyRejected ==
  \A r \in Requests :
    r.path = "/generate" /\ r.body = Str(P_mickey) =>
      /\ r.upcalls = 0
      /\ r.handled => r.status = 400 /\ r.error = "Content not allowed"

\* C7, amended: 'a photo of Mickey Mouse' passes the moderation (no word of
\* the blacklist is in it): once its handler has run, the upstream provider
\* has been called for it, and it is not answered 'Content not allowed'.
C7_MickeyAllowed ==
  \A r \in Requests :
    r.path = "/generate" /\ r.body = Str(P_mickey) /\ r.handled =>
      /\ r.mod = "allowed"
      /\ r.upcalls = 1
      /\ r.status # 400 /\ r.error # "Content not allowed"

\* C7 witness: the upstream call for 'a photo of Mickey Mouse' is under way.
C7_MickeyUpstream ==
  \E r \in Requests :
    /\ r.path = "/generate" /\ r.body = Str(P_mickey)
    /\ r.phase = "fetch" /\ r.upcalls = 1

\* the terms of the blacklist as the claim lists them
ClaimTerms ==
  << <<"c", "e", "l", "e", "b", "r", "i", "t", "y">>,
     <<"c", "e", "l", "e", "b", "r", "i", "t", "i", "e", "s">>,
     <<"f", "a", "m", "o", "u", "s">>,
     <<"s", "t", "a", "r">>,
     <<"t", "r", "a", "d", "e", "m", "a", "r", "k">>,
     <<"l", "o", "g", "o">>,
     <<"b", "r", "a", "n", "d">>,
     <<"d", "i", "s", "n", "e", "y">>,
     <<"m", "a", "r", "v", "e", "l">>,
     <<"p", "o", "k", "e", "m", "o", "n">>,
     <<"p", "o", "l", "i", "t", "i", "c", "a", "l">>,
     <<"p", "o", "l", "i", "t", "i", "c", "i", "a", "n">>,
     <<"p", "r", "e", "s", "i", "d", "e", "n", "t">> >>

ClaimLowerChar(c) ==
  CASE c = "A" -> "a"
    [] c = "B" -> "b"
    [] c = "C" -> "c"
    [] c = "D" -> "d"
    [] c = "E" -> "e"
    [] c = "F" -> "f"
    [] c = "G" -> "g"
    [] c = "H" -> "h"
    [] c = "I" -> "i"
    [] c = "J" -> "j"
    [] c = "K" -> "k"
    [] c = "L" -> "l"
    [] c = "M" -> "m"
    [] c = "N" -> "n"
    [] c = "O" -> "o"
    [] c = "P" -> "p"
    [] c = "Q" -> "q"
    [] c = "R" -> "r"
    [] c = "S" -> "s"
    [] c = "T" -> "t"
    [] c = "U" -> "u"
    [] c = "V" -> "v"
    [] c = "W" -> "w"
    [] c = "X" -> "x"
    [] c = "Y" -> "y"
    [] c = "Z" -> "z"
    [] OTHER -> c

ClaimLower(s) == [i \in 1..Len(s) |-> ClaimLowerChar(s[i])]

\* w is a substring of s
Contains(s, w) ==
  \E i \in 1..(Len(s) - Len(w) + 1) : SubSeq(s, i, i + Len(w) - 1) = w

\* the terms i, i+1, ... of the claim's list that s contains, comma-joined
RECURSIVE MatchedFrom(_, _, _)
MatchedFrom(i, s, first) ==
  IF i > Len(ClaimTerms) THEN <<>>
  ELSE IF Contains(s, ClaimTerms[i])
       THEN (IF first THEN <<>> ELSE <<",", " ">>) \o ClaimTerms[i]
            \o MatchedFrom(i + 1, s, FALSE)
       ELSE MatchedFrom(i + 1, s, first)

\* C4 (SpecModeration).  For a string prompt: when its lower-cased text
\* contains one of the 13 terms, moderateContent answers allowed = false with
\* the reason 'Prompt contains restricted words: ' followed by the terms it
\* contains, in the order of the list, joined by ', '; when it contains
\* none, allowed = true without a reason.
C4_Moderation ==
  decision.called /\ prompt.kind = "string" =>
    LET low == ClaimLower(prompt.str)
        some == \E i \in 1..Len(ClaimTerms) : Contains(low, ClaimTerms[i])
    IN  /\ ~decision.result.threw
        /\ some =>
             /\ ~decision.result.allowed
             /\ decision.result.reason = ReasonPrefix \o MatchedFrom(1, low, TRUE)
        /\ ~some =>
             /\ decision.result.allowed
             /\ decision.result.reason = <<>>

\* C4 witness: 'LoGostar' is refused with the terms in the order of the
\* list, not of the prompt: 'star, logo'.
C4_TwoTermsMixedCase ==
  /\ decision.called
  /\ prompt = Str(<<"L", "o", "G", "o", "s", "t", "a", "r">>)
  /\ ~decision.result.allowed
  /\ decision.result.reason = <<"P", "r", "o", "m", "p", "t", " ", "c", "o", "n", "t", "a", "i", "n", "s", " ", "r", "e", "s", "t", "r", "i", "c", "t", "e", "d", " ", "w", "o", "r", "d", "s", ":", " ", "s", "t", "a", "r", ",", " ", "l", "o", "g", "o">>

====
